---- MODULE Spec2Model ----
(***************************************************************************)
(* Model of cadquery/occ_impl/solver.py (class ConstraintSolver).          *)
(*                                                                         *)
(* Floating point numbers are modelled by exact rationals <<n, d>> (d > 0, *)
(* lowest terms); a Euclidean norm is kept exact as a linear combination   *)
(* of square roots of square-free integers (a "surd").  The geometry      *)
(* kernel (OCP gp_Trsf, gp_Quaternion, gp_Pnt, gp_Dir) and the optimizer   *)
(* (scipy least_squares) are modelled at the calls the solver makes.       *)
(***************************************************************************)
EXTENDS Integers, Sequences, FiniteSets, TLC

(***************************************************************************)
(* Exact arithmetic standing for Python float arithmetic.                  *)
(***************************************************************************)
Abs(n) == IF n < 0 THEN -n ELSE n

RECURSIVE GCD(_, _)
GCD(a, b) == IF b = 0 THEN a ELSE GCD(b, a % b)

\* n/d, given g = gcd(|n|, |d|)
RatG(n, d, g) == IF d < 0 THEN <<(-n) \div g, (-d) \div g>> ELSE <<n \div g, d \div g>>
Rat(n, d) == RatG(n, d, GCD(Abs(n), Abs(d)))

R0 == <<0, 1>>
R1 == <<1, 1>>
R2 == <<2, 1>>

\* The sum over the least common denominator g * (p[2]/g) * (q[2]/g), to keep the
\* integers small.
RAddG(p, q, g) == Rat(p[1] * (q[2] \div g) + q[1] * (p[2] \div g), (p[2] \div g) * q[2])
RAdd(p, q) ==
    IF p[2] = 1 /\ q[2] = 1 THEN <<p[1] + q[1], 1>> ELSE RAddG(p, q, GCD(p[2], q[2]))
RNeg(p) == <<-p[1], p[2]>>
RSub(p, q) == RAdd(p, RNeg(q))
\* The product, with the common factors g1, g2 cancelled crosswise first.
RMulG(p, q, g1, g2) == Rat((p[1] \div g1) * (q[1] \div g2), (p[2] \div g2) * (q[2] \div g1))
RMul(p, q) ==
    IF p[1] = 0 \/ q[1] = 0 THEN R0
    ELSE RMulG(p, q, GCD(Abs(p[1]), q[2]), GCD(Abs(q[1]), p[2]))
\* p / q, for q # 0
RDiv(p, q) == RMul(p, Rat(q[2], q[1]))
RSq(p) == RMul(p, p)

\* A power of two whose square exceeds n, from b on.
RECURSIVE RootBound(_, _)
RootBound(n, b) == IF b * b > n THEN b ELSE RootBound(n, 2 * b)

\* Largest s with s*s dividing n (n >= 1).
SquareDivisors(n) == {k \in 1..RootBound(n, 1) : k * k <= n /\ n % (k * k) = 0}
MaxOf(S) == CHOOSE s \in S : \A k \in S : k <= s
SquarePart(n) == MaxOf(SquareDivisors(n))

\* A surd: a set of <<f, c>>, standing for the sum of c * sqrt(f), with f
\* square-free and distinct, and c a nonzero rational.
SZero == {}
SRat(p) == IF p = R0 THEN {} ELSE {<<1, p>>}
SCoef(s, f) == IF \E t \in s : t[1] = f THEN (CHOOSE t \in s : t[1] = f)[2] ELSE R0
SAdd(s, t) ==
    LET fs == {u[1] : u \in s \cup t}
    IN  {v \in {<<f, RAdd(SCoef(s, f), SCoef(t, f))>> : f \in fs} : v[2] # R0}

\* sqrt(p) for a rational p = n/d >= 0 in lowest terms: with n = s*s*f and
\* d = t*t*g, f and g square-free, sqrt(n/d) = (s / (t*g)) * sqrt(f*g).
SSqrtST(p, s, t) ==
    {<<(p[1] \div (s * s)) * (p[2] \div (t * t)), Rat(s, t * (p[2] \div (t * t)))>>}
SSqrt(p) == IF p[1] = 0 THEN SZero ELSE SSqrtST(p, SquarePart(p[1]), SquarePart(p[2]))

(***************************************************************************)
(* Geometry kernel primitives, as used by the solver.                      *)
(***************************************************************************)
Vec(x, y, z) == <<x, y, z>>
Zero3 == <<R0, R0, R0>>
VSub(u, v) == <<RSub(u[1], v[1]), RSub(u[2], v[2]), RSub(u[3], v[3])>>
VAdd(u, v) == <<RAdd(u[1], v[1]), RAdd(u[2], v[2]), RAdd(u[3], v[3])>>
Dot(u, v) == RAdd(RAdd(RMul(u[1], v[1]), RMul(u[2], v[2])), RMul(u[3], v[3]))
\* gp_XYZ.Modulus()
Modulus(u) == SSqrt(Dot(u, u))

Identity3 == <<<<R1, R0, R0>>, <<R0, R1, R0>>, <<R0, R0, R1>>>>
MatVec(M, u) == <<Dot(M[1], u), Dot(M[2], u), Dot(M[3], u)>>

\* gp_Quaternion(x, y, z, w) keeps the four numbers as given.
Quaternion(x, y, z, w) == <<x, y, z, w>>
SquareNorm(q) == RAdd(RAdd(RSq(q[1]), RSq(q[2])), RAdd(RSq(q[3]), RSq(q[4])))

\* gp_Quaternion::GetMatrix: the rotation matrix of q, scaled by 2/SquareNorm,
\* so that a quaternion of any nonzero norm gives a proper rotation.
GetMatrixS(q, x2, y2, z2) ==
    << <<RSub(R1, RAdd(RMul(q[2], y2), RMul(q[3], z2))),
         RSub(RMul(q[1], y2), RMul(q[4], z2)),
         RAdd(RMul(q[1], z2), RMul(q[4], y2))>>,
       <<RAdd(RMul(q[1], y2), RMul(q[4], z2)),
         RSub(R1, RAdd(RMul(q[1], x2), RMul(q[3], z2))),
         RSub(RMul(q[2], z2), RMul(q[4], x2))>>,
       <<RSub(RMul(q[1], z2), RMul(q[4], y2)),
         RAdd(RMul(q[2], z2), RMul(q[4], x2)),
         RSub(R1, RAdd(RMul(q[1], x2), RMul(q[2], y2)))>> >>
Scaled(q, s) == GetMatrixS(q, RMul(q[1], s), RMul(q[2], s), RMul(q[3], s))
GetMatrix(q) == Scaled(q, RDiv(R2, SquareNorm(q)))

\* gp_Trsf(): the identity transformation.
gp_Trsf == [loc |-> Zero3, matrix |-> Identity3]
\* gp_Trsf::SetTranslation(V): becomes the pure translation by V.
SetTranslation(t, v) == [loc |-> v, matrix |-> Identity3]
\* gp_Trsf::SetRotation(R): becomes the pure rotation R about the origin; the
\* translation part is reset to zero.
SetRotation(t, q) == [loc |-> Zero3, matrix |-> GetMatrix(q)]

\* The transformation wrapped by a Location whose translation part is v and
\* whose GetRotation() is the quaternion q.
Location(v, q) == [v |-> v, q |-> q]
LocTrsf(loc) == [loc |-> loc.v, matrix |-> GetMatrix(loc.q)]

\* Markers: gp_Pnt, gp_Dir, or an object of another type.
Pnt(x, y, z) == [kind |-> "gp_Pnt", xyz |-> Vec(Rat(x, 1), Rat(y, 1), Rat(z, 1))]
Dir(x, y, z) == [kind |-> "gp_Dir", xyz |-> Vec(Rat(x, 1), Rat(y, 1), Rat(z, 1))]
Other == [kind |-> "other", xyz |-> Zero3]

\* gp_Pnt.Transformed(t) applies rotation and translation; gp_Dir.Transformed(t)
\* applies the rotation only (a unit vector stays a unit vector).  .XYZ() of
\* either is the coordinate triple.
Transformed(m, t) ==
    IF m.kind = "gp_Pnt" THEN VAdd(MatVec(t.matrix, m.xyz), t.loc)
    ELSE MatVec(t.matrix, m.xyz)

(***************************************************************************)
(* Bounds and inputs.                                                      *)
(***************************************************************************)
\* Largest number of entries the caller puts into the constraint mapping.
MaxCons == 2
\* Initial poses: identity; a rotation of about 74 degrees about z with a
\* translation; and the pose whose quaternion has w = -1.
P0 == Location(Zero3, Quaternion(R0, R0, R0, R1))
P1 == Location(Vec(R1, R0, R0), Quaternion(R0, R0, Rat(3, 5), Rat(4, 5)))
P2 == Location(Zero3, Quaternion(R0, R0, R0, Rat(-1, 1)))
LocLists == {<<P1>>, <<P0, P1>>, <<P0, P2>>}

\* Entity index pairs the caller uses as keys.
KeySet == {<<0, 0>>, <<0, 1>>, <<1, 0>>}

\* Constraint values (ms1, ms2) the caller uses.
cEmpty == <<<< >>, << >>>>
cPerp  == <<<<Dir(1, 0, 0)>>, <<Dir(0, 1, 0)>>>>
cSame  == <<<<Dir(1, 0, 0)>>, <<Dir(1, 0, 0)>>>>
cSum   == <<<<Pnt(1, 0, 0), Dir(1, 0, 0)>>, <<Pnt(0, 2, 0), Dir(0, 1, 0)>>>>
cPD    == <<<<Pnt(1, 0, 0)>>, <<Dir(0, 1, 0)>>>>
cOther == <<<<Other>>, <<Pnt(0, 0, 0)>>>>
ConstraintSet == {cEmpty, cPerp, cSame, cSum, cPD, cOther}

\* A 6-block the optimizer may move an entity to.
DofSet == {<<R0, R0, R0, R1, R0, R0>>}

VARIABLES
    locs,         \* the caller's list of initial poses
    constraints,  \* the caller's mapping object; self.constraints is this object
    pc,           \* "new", "ready", "optimizing", "returned", "raised", "ctor_raised"
    entities,     \* self.entities
    ne,           \* self.ne
    nc,           \* self.nc
    x,            \* the optimizer's current parameter vector
    rv,           \* the residual vector f returned for x
    sparsity,     \* the matrix _jacobianSparsity returned to this solve()
    result,       \* the list solve() returned
    err,          \* the exception that ended the last call, or "none"
    snapshot,     \* history: the arguments as they were when __init__ ran
    mutated       \* history: the caller changed its objects after __init__

vars == <<locs, constraints, pc, entities, ne, nc, x, rv, sparsity,
          result, err, snapshot, mutated>>

Min(a, b) == IF a < b THEN a ELSE b
Keys(cs) == {cs[i].key : i \in 1..Len(cs)}
Entry(key, c) == [key |-> key, ms1 |-> c[1], ms2 |-> c[2]]

(***************************************************************************)
(* ConstraintSolver                                                        *)
(***************************************************************************)
\* _locToDOF6 divides by 1 + q.W(): Python raises ZeroDivisionError at w = -1.
locToDOF6Raises(loc) == RAdd(R1, loc.q[4]) = R0

locToDOF6(loc) ==
    LET v == loc.v
        q == loc.q
        alpha_2 == RDiv(RSub(R1, q[4]), RAdd(R1, q[4]))
        a == RDiv(RMul(RAdd(alpha_2, R1), q[1]), R2)
        b == RDiv(RMul(RAdd(alpha_2, R1), q[2]), R2)
        c == RDiv(RMul(RAdd(alpha_2, R1), q[3]), R2)
    IN  <<v[1], v[2], v[3], a, b, c>>

\* The four arguments _build_transform gives to gp_Quaternion.
build_quaternion(a, b, c) ==
    LET m == RAdd(RAdd(RSq(a), RSq(b)), RSq(c))
    IN  Quaternion(IF m # R0 THEN RDiv(RMul(R2, a), m) ELSE R0,
                   IF m # R0 THEN RDiv(RMul(R2, b), m) ELSE R0,
                   IF m # R0 THEN RDiv(RMul(R2, c), m) ELSE R0,
                   RDiv(RSub(R1, m), RAdd(m, R1)))

build_transform(d) ==
    SetRotation(SetTranslation(gp_Trsf, Vec(d[1], d[2], d[3])),
                build_quaternion(d[4], d[5], d[6]))

\* x[6 * i : 6 * (i + 1)], for the 0-based entity index i.
Slice(v, i) == <<v[6*i + 1], v[6*i + 2], v[6*i + 3], v[6*i + 4], v[6*i + 5], v[6*i + 6]>>

\* array([el for el in self.entities]).ravel()
Ravel(ents) == [j \in 1..(6 * Len(ents)) |-> ents[((j - 1) \div 6) + 1][((j - 1) % 6) + 1]]

\* Mutant of BlockCols: the slice one column short.
BlockColsShort(k) == (6 * k + 1)..(6 * (k + 1) - 1)
\* Columns (1-based) of the slice 6 * k : 6 * (k + 1).
BlockCols(k) == (6 * k + 1)..(6 * (k + 1))
\* Mutant of RowBlocks: the second assignment forgotten.
RowBlocksFirst(k1, k2) == {k1}
\* The entity blocks a row is marked for (lines 53 and 54).
RowBlocks(k1, k2) == {k1, k2}

\* rv[i, 6 * k : 6 * (k + 1)] = 1, for each block of the row, on a row of zeros;
\* a slice beyond the row's width assigns nothing.
MarkedRow(width, k1, k2) ==
    [col \in 1..width |->
        IF \E k \in RowBlocks(k1, k2) : col \in BlockCols(k) THEN 1 ELSE 0]

\* _jacobianSparsity, from constraint position i (0-based) on; rows is the
\* matrix so far.  Assigning into row i >= nc raises IndexError.
RECURSIVE SparsityFrom(_, _, _, _, _)
SparsityFrom(cs, n_e, n_c, i, rows) ==
    IF i >= Len(cs) THEN [raise |-> "none", m |-> rows]
    ELSE IF i >= n_c THEN [raise |-> "IndexError", m |-> rows]
    ELSE SparsityFrom(cs, n_e, n_c, i + 1,
            [rows EXCEPT ![i + 1] = MarkedRow(6 * n_e, cs[i + 1].key[1], cs[i + 1].key[2])])

jacobianSparsity(cs, n_e, n_c) ==
    SparsityFrom(cs, n_e, n_c, 0, [r \in 1..n_c |-> [col \in 1..(6 * n_e) |-> 0]])

\* Mutant of DirTerm: the distance of the dot product from 1.
DirTermOneMinus(m1, m2, t1, t2) ==
    SRat(RSub(R1, Dot(Transformed(m1, t1), Transformed(m2, t2))))
\* The term of a Direction pair (line 99).
DirTerm(m1, m2, t1, t2) == SRat(Dot(Transformed(m1, t1), Transformed(m2, t2)))
\* The term of a Point pair (lines 95 to 97).
PntTerm(m1, m2, t1, t2) == Modulus(VSub(Transformed(m1, t1), Transformed(m2, t2)))

\* One pass of the body of "for m1, m2 in zip(ms1, ms2)" for row i: the new
\* value of rv[i], or the exception raised.  Only the type of m1 is tested; what
\* m2 is shows in the kernel calls made on it.
PairStep(m1, m2, t1, t2, rowExists, acc) ==
    IF m1.kind = "gp_Pnt" THEN
        IF ~rowExists THEN [raise |-> "IndexError", val |-> acc]
        ELSE IF m2.kind = "other" THEN [raise |-> "AttributeError", val |-> acc]
        ELSE [raise |-> "none", val |-> SAdd(acc, PntTerm(m1, m2, t1, t2))]
    ELSE IF m1.kind = "gp_Dir" THEN
        IF ~rowExists THEN [raise |-> "IndexError", val |-> acc]
        ELSE IF m2.kind = "other" THEN [raise |-> "AttributeError", val |-> acc]
        ELSE IF m2.kind = "gp_Pnt" THEN [raise |-> "TypeError", val |-> acc]
        ELSE [raise |-> "none", val |-> SAdd(acc, DirTerm(m1, m2, t1, t2))]
    ELSE [raise |-> "NotImplementedError", val |-> acc]

RECURSIVE PairsFrom(_, _, _, _, _, _, _)
PairsFrom(ms1, ms2, t1, t2, rowExists, j, acc) ==
    IF j > Min(Len(ms1), Len(ms2)) THEN [raise |-> "none", val |-> acc]
    ELSE LET r == PairStep(ms1[j], ms2[j], t1, t2, rowExists, acc)
         IN  IF r.raise # "none" THEN r
             ELSE PairsFrom(ms1, ms2, t1, t2, rowExists, j + 1, r.val)

\* [self._build_transform(*x[6 * i : 6 * (i + 1)]) for i in range(ne)]
\* As a sequence: transforms[k] is Transforms(v, n_e)[k + 1].
RECURSIVE TransformsFrom(_, _, _)
TransformsFrom(v, n_e, i) ==
    IF i >= n_e THEN << >>
    ELSE <<build_transform(Slice(v, i))>> \o TransformsFrom(v, n_e, i + 1)
Transforms(v, n_e) == TransformsFrom(v, n_e, 0)

\* The loop of f over enumerate(constraints.items()), from position i on.
\* transforms[k] raises IndexError for k >= ne.
RECURSIVE CostFrom(_, _, _, _, _)
CostFrom(cs, T, n_c, i, res) ==
    IF i >= Len(cs) THEN [raise |-> "none", rv |-> res]
    ELSE IF cs[i + 1].key[1] >= Len(T) \/ cs[i + 1].key[2] >= Len(T)
    THEN [raise |-> "IndexError", rv |-> res]
    ELSE LET e == cs[i + 1]
             r == PairsFrom(e.ms1, e.ms2, T[e.key[1] + 1], T[e.key[2] + 1], i < n_c,
                            1, IF i < n_c THEN res[i + 1] ELSE SZero)
         IN  IF r.raise # "none" THEN [raise |-> r.raise, rv |-> res]
             ELSE CostFrom(cs, T, n_c, i + 1,
                           IF i < n_c THEN [res EXCEPT ![i + 1] = r.val] ELSE res)

\* f(x) of _cost
Cost(cs, n_e, n_c, v) ==
    CostFrom(cs, Transforms(v, n_e), n_c, 0, [r \in 1..n_c |-> SZero])

(***************************************************************************)
(* The caller, before construction.                                        *)
(***************************************************************************)
Init ==
    /\ locs \in LocLists
    /\ constraints = << >>
    /\ pc = "new"
    /\ entities = << >>
    /\ ne = 0
    /\ nc = 0
    /\ x = << >>
    /\ rv = << >>
    /\ sparsity = << >>
    /\ result = << >>
    /\ err = "none"
    /\ snapshot = [locs |-> << >>, constraints |-> << >>]
    /\ mutated = FALSE

\* The caller fills its mapping: constraints[key] = c for a new key between
\* entities of its list.
CallerAddConstraint ==
    /\ pc = "new"
    /\ Len(constraints) < MaxCons
    /\ \E key \in KeySet \ Keys(constraints), c \in ConstraintSet :
          /\ key[1] < Len(locs)
          /\ key[2] < Len(locs)
          /\ constraints' = Append(constraints, Entry(key, c))
    /\ UNCHANGED <<locs, pc, entities, ne, nc, x, rv, sparsity, result,
                   err, snapshot, mutated>>

(***************************************************************************)
(* ConstraintSolver.__init__                                               *)
(***************************************************************************)
Construct ==
    /\ pc = "new"
    /\ IF \E i \in 1..Len(locs) : locToDOF6Raises(locs[i])
       THEN /\ pc' = "ctor_raised"
            /\ err' = "ZeroDivisionError"
            /\ UNCHANGED <<entities, ne, nc, snapshot>>
       ELSE /\ entities' = [i \in 1..Len(locs) |-> locToDOF6(locs[i])]
            /\ ne' = Len(locs)
            /\ nc' = Len(constraints)
            /\ snapshot' = [locs |-> locs, constraints |-> constraints]
            /\ pc' = "ready"
            /\ err' = "none"
    /\ UNCHANGED <<locs, constraints, x, rv, sparsity, result, mutated>>

(***************************************************************************)
(* ConstraintSolver.solve                                                  *)
(***************************************************************************)
Idle == pc \in {"ready", "returned", "raised"}

\* solve() up to the optimizer's first evaluation of f: x0, the sparsity
\* matrix, and f(x0).
SolveStart ==
    /\ Idle
    /\ LET x0 == Ravel(entities)
           sp == jacobianSparsity(constraints, ne, nc)
           f0 == Cost(constraints, ne, nc, x0)
       IN  /\ x' = x0
           /\ result' = << >>
           /\ IF sp.raise # "none"
              THEN /\ pc' = "raised"
                   /\ err' = sp.raise
                   /\ sparsity' = << >>
                   /\ rv' = << >>
              ELSE /\ sparsity' = sp.m
                   /\ IF f0.raise # "none"
                      THEN /\ pc' = "raised"
                           /\ err' = f0.raise
                           /\ rv' = << >>
                      ELSE /\ pc' = "optimizing"
                           /\ err' = "none"
                           /\ rv' = f0.rv
    /\ UNCHANGED <<locs, constraints, entities, ne, nc, snapshot, mutated>>

\* x with the block of entity i replaced by d.
WithBlock(v, i, d) ==
    SubSeq(v, 1, 6 * i) \o d \o SubSeq(v, 6 * (i + 1) + 1, Len(v))

\* One iteration of least_squares: it moves to another vector and evaluates f
\* there.  With no residuals there is nothing to minimize and it stays at x0.
OptimizerStep ==
    /\ pc = "optimizing"
    /\ nc > 0
    /\ \E i \in 0..(ne - 1), d \in DofSet :
          LET y == WithBlock(x, i, d)
              fy == Cost(constraints, ne, nc, y)
          IN  /\ y # x
              /\ x' = y
              /\ IF fy.raise # "none"
                 THEN /\ pc' = "raised"
                      /\ err' = fy.raise
                      /\ rv' = << >>
                 ELSE /\ pc' = "optimizing"
                      /\ err' = "none"
                      /\ rv' = fy.rv
    /\ UNCHANGED <<locs, constraints, entities, ne, nc, sparsity, result,
                   snapshot, mutated>>

\* Mutant of SolveReturn: the solution is stored back into self.entities.
SolveReturnWriteBack ==
    /\ pc = "optimizing"
    /\ result' = [i \in 1..ne |-> build_transform(Slice(x, i - 1))]
    /\ entities' = [i \in 1..ne |-> Slice(x, i - 1)]
    /\ pc' = "returned"
    /\ UNCHANGED <<locs, constraints, ne, nc, x, rv, sparsity, err, snapshot, mutated>>
\* least_squares returns res.x; solve() turns it into Locations.
SolveReturn ==
    /\ pc = "optimizing"
    /\ result' = [i \in 1..ne |-> build_transform(Slice(x, i - 1))]
    /\ pc' = "returned"
    /\ UNCHANGED <<locs, constraints, entities, ne, nc, x, rv, sparsity,
                   err, snapshot, mutated>>

(***************************************************************************)
(* The caller, after construction: one change to the objects it passed.    *)
(***************************************************************************)
Forget ==
    /\ pc' = "ready"
    /\ x' = << >>
    /\ rv' = << >>
    /\ sparsity' = << >>
    /\ result' = << >>
    /\ err' = "none"
    /\ mutated' = TRUE
    /\ UNCHANGED <<entities, ne, nc, snapshot>>

\* constraints[key] = cSame, for the first key not yet in the mapping
CallerInsert ==
    /\ Idle /\ ~mutated
    /\ Len(constraints) < MaxCons
    /\ \E key \in KeySet \ Keys(constraints) :
          /\ key[1] < ne
          /\ key[2] < ne
          /\ constraints' = Append(constraints, Entry(key, cSame))
    /\ UNCHANGED locs
    /\ Forget

\* constraints.popitem()
CallerPopItem ==
    /\ Idle /\ ~mutated
    /\ Len(constraints) > 0
    /\ constraints' = SubSeq(constraints, 1, Len(constraints) - 1)
    /\ UNCHANGED locs
    /\ Forget

\* constraints[key] = cSame, for the first key of the mapping
CallerReplace ==
    /\ Idle /\ ~mutated
    /\ Len(constraints) > 0
    /\ constraints[1] # Entry(constraints[1].key, cSame)
    /\ constraints' = [constraints EXCEPT ![1] = Entry(@.key, cSame)]
    /\ UNCHANGED locs
    /\ Forget

\* entities.pop()
CallerPopLoc ==
    /\ Idle /\ ~mutated
    /\ locs' = SubSeq(locs, 1, Len(locs) - 1)
    /\ UNCHANGED constraints
    /\ Forget

Next ==
    \/ CallerAddConstraint
    \/ Construct
    \/ SolveStart
    \/ OptimizerStep
    \/ SolveReturn
    \/ CallerInsert
    \/ CallerPopItem
    \/ CallerReplace
    \/ CallerPopLoc

Spec == Init /\ [][Next]_vars

(***************************************************************************)
(* Properties                                                              *)
(***************************************************************************)
Constructed == pc \in {"ready", "optimizing", "returned", "raised"}
\* f has returned a residual vector for the constraints now in the mapping.
Evaluated == pc \in {"optimizing", "returned"}
\* _jacobianSparsity has returned its matrix to the running or last solve().
SparsityReturned == Evaluated \/ (pc = "raised" /\ err # "IndexError")
PositiveW(loc) == loc.q[4][1] > 0

\* C1: for every initial pose with w > 0, _build_transform of the six numbers
\* _locToDOF6 returns has the pose's translation and the pose's rotation (the
\* rotation matrix, which is the same for q and -q).
C1_RoundTrip ==
    Constructed =>
        \A i \in 1..ne :
            PositiveW(snapshot.locs[i]) =>
                build_transform(entities[i]) = LocTrsf(snapshot.locs[i])

\* A pair the residual function must reject: kinds differ, or the kind is
\* neither point nor direction.
BadPair(m1, m2) ==
    \/ m1.kind # m2.kind
    \/ m1.kind \notin {"gp_Pnt", "gp_Dir"}
HasBadPair(e) == \E j \in 1..Min(Len(e.ms1), Len(e.ms2)) : BadPair(e.ms1[j], e.ms2[j])

\* C2: an evaluation of the residual function on a constraint with a pair of
\* mismatched or unknown kinds raises, so no residual vector and no poses are
\* ever produced from such a mapping.
C2_MismatchRaises ==
    Evaluated => \A i \in 1..Len(constraints) : ~HasBadPair(constraints[i])

RECURSIVE SeqSum(_, _)
SeqSum(row, j) == IF j > Len(row) THEN 0 ELSE row[j] + SeqSum(row, j + 1)

\* C3: the sparsity matrix is nc x 6*ne of zeros and ones; the row of the
\* constraint (k1, k2) at position i has ones exactly in columns [6*k1, 6*k1+6)
\* and [6*k2, 6*k2+6), so it sums to 12 when k1 # k2 and to 6 when k1 = k2.
C3_SparsityShape ==
    SparsityReturned =>
        /\ Len(sparsity) = nc
        /\ \A r \in 1..nc :
              /\ Len(sparsity[r]) = 6 * ne
              /\ \A col \in 1..(6 * ne) : sparsity[r][col] \in {0, 1}
        /\ \A i \in 1..Len(constraints) :
              LET k1 == constraints[i].key[1]
                  k2 == constraints[i].key[2]
              IN  /\ \A col \in 0..(6 * ne - 1) :
                        sparsity[i][col + 1] = 1 <=>
                            \/ (6 * k1 <= col /\ col < 6 * k1 + 6)
                            \/ (6 * k2 <= col /\ col < 6 * k2 + 6)
                  /\ SeqSum(sparsity[i], 1) = IF k1 # k2 THEN 12 ELSE 6

C3_Witness ==
    /\ pc = "optimizing"
    /\ Len(constraints) = 2
    /\ constraints[1].key = <<0, 1>>
    /\ constraints[2].key = <<0, 0>>
    /\ SeqSum(sparsity[1], 1) = 12
    /\ SeqSum(sparsity[2], 1) = 6

\* C4: the quaternion _build_transform computes from (a, b, c) has unit norm,
\* for every parameter vector the solver decodes.
C4_UnitQuaternion ==
    Evaluated =>
        \A i \in 0..(ne - 1) :
            SquareNorm(build_quaternion(Slice(x, i)[4], Slice(x, i)[5], Slice(x, i)[6])) = R1

MismatchErrors == {"NotImplementedError", "TypeError", "AttributeError"}

\* C5: the constructor never raises, whatever the poses (w = -1 included) and
\* the mapping; an error arises only in solve(), and only as a marker kind
\* mismatch.
C5_ConstructionNeverFails ==
    /\ pc # "ctor_raised"
    /\ pc = "raised" => err \in MismatchErrors

\* C6: a solve() after the caller changed the mapping or the entity list still
\* iterates over the constraints and entities of construction time, with nc and
\* ne their counts, and does not fail because of the change.
C6_PrivateSnapshot ==
    pc \in {"optimizing", "returned", "raised"} =>
        /\ constraints = snapshot.constraints
        /\ nc = Len(constraints)
        /\ ne = Len(entities)
        /\ entities = [i \in 1..Len(snapshot.locs) |-> locToDOF6(snapshot.locs[i])]
        /\ err # "IndexError"

\* C7: with zero constraints solve() does not fail and returns ne poses, the
\* i-th equal to the i-th initial pose when that pose has w > 0.
C7_ZeroConstraints ==
    (Constructed /\ nc = 0 /\ ~mutated) =>
        /\ pc # "raised"
        /\ pc = "returned" =>
              /\ Len(result) = ne
              /\ \A i \in 1..ne :
                    PositiveW(snapshot.locs[i]) => result[i] = LocTrsf(snapshot.locs[i])

\* The term the claim gives for a pair: the distance of the two world points,
\* or the dot product of the two rotated directions.
WorldPoint(m, t) == VAdd(MatVec(t.matrix, m.xyz), t.loc)
Rotated(m, t) == MatVec(t.matrix, m.xyz)
ClaimedTerm(m1, m2, t1, t2) ==
    IF m1.kind = "gp_Pnt"
    THEN SSqrt(Dot(VSub(WorldPoint(m1, t1), WorldPoint(m2, t2)),
                   VSub(WorldPoint(m1, t1), WorldPoint(m2, t2))))
    ELSE SRat(Dot(Rotated(m1, t1), Rotated(m2, t2)))
RECURSIVE ClaimedSum(_, _, _, _)
ClaimedSum(e, t1, t2, j) ==
    IF j > Min(Len(e.ms1), Len(e.ms2)) THEN SZero
    ELSE SAdd(ClaimedTerm(e.ms1[j], e.ms2[j], t1, t2), ClaimedSum(e, t1, t2, j + 1))
IdentityRotations(e) ==
    /\ build_transform(Slice(x, e.key[1])).matrix = Identity3
    /\ build_transform(Slice(x, e.key[2])).matrix = Identity3

\* C8: for a constraint whose pairs are Point/Point or Direction/Direction,
\* residual[i] is the sum over its pairs of the distance of the two world points
\* (Point) or of the raw dot product of the two rotated directions (Direction):
\* 0 for no pairs, 0 for the single pair (1,0,0) / (0,1,0) under identity
\* rotations, 1 for two equal directions under identity rotations.
C8_ResidualIsSum ==
    pc = "optimizing" =>
        \A i \in 1..Len(constraints) :
            LET e == constraints[i]
                t1 == build_transform(Slice(x, e.key[1]))
                t2 == build_transform(Slice(x, e.key[2]))
            IN  ~HasBadPair(e) =>
                   /\ rv[i] = ClaimedSum(e, t1, t2, 1)
                   /\ <<e.ms1, e.ms2>> = cEmpty => rv[i] = SZero
                   /\ (<<e.ms1, e.ms2>> = cPerp /\ IdentityRotations(e)) => rv[i] = SZero
                   /\ (<<e.ms1, e.ms2>> = cSame /\ IdentityRotations(e)) => rv[i] = SRat(R1)

C8_Witness ==
    /\ pc = "optimizing"
    /\ Len(constraints) = 2
    /\ constraints[1] = Entry(<<0, 0>>, cSame)
    /\ constraints[2] = Entry(<<0, 1>>, cSum)
    /\ IdentityRotations(constraints[1])
    /\ rv[1] = SRat(R1)
    /\ Cardinality(rv[2]) = 2

\* C9: a step of solve() leaves entities, the mapping, ne and nc as they are, so
\* that without a change by the caller they stay as construction left them; a
\* call that returns, returns ne poses, the i-th decoded from the i-th block.
C9_SolveIsPureRead ==
    /\ [](Constructed /\ ~mutated =>
            /\ constraints = snapshot.constraints
            /\ nc = Len(snapshot.constraints)
            /\ ne = Len(snapshot.locs)
            /\ entities = [i \in 1..Len(snapshot.locs) |-> locToDOF6(snapshot.locs[i])])
    /\ [][pc' \in {"optimizing", "returned", "raised"} =>
            /\ entities' = entities
            /\ constraints' = constraints
            /\ ne' = ne
            /\ nc' = nc
            /\ pc' = "returned" =>
                  /\ Len(result') = ne
                  /\ \A i \in 1..ne : result'[i] = build_transform(Slice(x, i - 1))]_vars

C9_Witness ==
    /\ pc = "returned"
    /\ ne = 2
    /\ Len(result) = 2
    /\ x # Ravel(entities)
    /\ entities = [i \in 1..2 |-> locToDOF6(snapshot.locs[i])]

\* Blocks to compare against, and the vectors that have, in each block, either
\* the block of v or one of these.
ProbeBlocks == {<<R0, R0, R0, R1, R0, R0>>, <<R1, R1, R1, R0, R1, R0>>}
RECURSIVE Probes(_, _, _)
Probes(v, i, n) ==
    IF i = n THEN {v}
    ELSE UNION {Probes(WithBlock(v, i, d), i + 1, n) : d \in ProbeBlocks \cup {Slice(v, i)}}
Agree(row, v, w) == \A col \in 1..Len(row) : row[col] = 1 => v[col] = w[col]

\* C10: residual[i] does not depend on a parameter whose entry in row i of the
\* sparsity matrix is 0: a vector that agrees with x on the columns marked in row
\* i gives the same residual[i].
C10_SparsityCoversDependencies ==
    pc = "optimizing" =>
        \A i \in 1..Len(constraints) :
            \A y \in Probes(x, 0, ne) :
                Agree(sparsity[i], x, y) =>
                    /\ Cost(constraints, ne, nc, y).raise = "none"
                    /\ Cost(constraints, ne, nc, y).rv[i] = rv[i]

C10_Witness ==
    /\ pc = "optimizing"
    /\ ne = 2
    /\ Len(constraints) = 2
    /\ constraints[1] = Entry(<<0, 0>>, cSum)
    /\ constraints[2] = Entry(<<0, 1>>, cPerp)
    /\ \E y \in Probes(x, 0, ne) :
          /\ y # x
          /\ Agree(sparsity[1], x, y)
          /\ ~Agree(sparsity[2], x, y)
          /\ Cost(constraints, ne, nc, y).rv[1] = rv[1]
          /\ Cost(constraints, ne, nc, y).rv[2] # rv[2]

====
